---- MODULE Spec2Model ----
(***************************************************************************)
(* Model of the local C stub of the meeting-core FFI boundary              *)
(* (meeting_core_ffi_stub.c, built when MEETING_USE_RUST_FFI is not set).  *)
(*                                                                         *)
(* Host threads call the five exported functions.  A call is split at its  *)
(* accesses to shared memory (the allocator, g_callback, g_user_data), so  *)
(* that calls of different threads interleave as they can in the build.    *)
(* Each call ends in a "..._ret" position that still holds its arguments   *)
(* and its return value; the return step hands the result to the host.     *)
(*                                                                         *)
(* Spec          one host thread calls every function, in any order        *)
(* SpecInvoke    NThreads threads create runtimes, invoke and release      *)
(* SpecCallback  NThreads threads register callbacks                       *)
(***************************************************************************)
EXTENDS Integers, Sequences, FiniteSets, TLC

\* Number of host threads calling into the boundary.
NThreads == 2
\* Number of heap addresses malloc can hand out.
MaxAddr == 4

NULL == 0
Threads == 1..NThreads
Addr == 1..MaxAddr
Pointers == Addr \cup {NULL}

\* Texts the host passes as config_json / request_json: NUL-terminated UTF-8,
\* here the empty text, a minimal one and a malformed one.
Configs == {"", "{}", "{bad"}
Requests == {"", "{\"cmd\":\"ping\"}", "{bad"}

\* (callback, user_data) pairs the host registers.  Each non-null callback is
\* always passed with its own user_data, so a stored pair outside this set
\* mixes two registrations.
Registrations == {<<NULL, NULL>>, <<1, 1>>, <<2, 2>>, <<NULL, 1>>}

\* The string literal of ma_invoke_json, as the bytes of the C array: its 132
\* characters followed by the terminating NUL.
\*   {"ok":false,"error":{"code":"ffi_stub","message":"Linked to local FFI
\*   stub. Replace with Rust libmeeting_core_ffi for production."}}
payload ==
  << 123, 34, 111, 107, 34, 58, 102, 97, 108, 115, 101, 44, 34, 101, 114, 114, 111, 114, 34, 58,
     123, 34, 99, 111, 100, 101, 34, 58, 34, 102, 102, 105, 95, 115, 116, 117, 98, 34, 44, 34,
     109, 101, 115, 115, 97, 103, 101, 34, 58, 34, 76, 105, 110, 107, 101, 100, 32, 116, 111, 32,
     108, 111, 99, 97, 108, 32, 70, 70, 73, 32, 115, 116, 117, 98, 46, 32, 82, 101, 112, 108,
     97, 99, 101, 32, 119, 105, 116, 104, 32, 82, 117, 115, 116, 32, 108, 105, 98, 109, 101, 101,
     116, 105, 110, 103, 95, 99, 111, 114, 101, 95, 102, 102, 105, 32, 102, 111, 114, 32, 112, 114,
     111, 100, 117, 99, 116, 105, 111, 110, 46, 34, 125, 125, 0 >>

VARIABLES
  allocated,    \* the allocator: addresses of the blocks malloc'ed and not freed
  mem,          \* contents of each block, a sequence of cells (<<>> when not allocated)
  g_callback,   \* static ma_event_callback g_callback
  g_user_data,  \* static void* g_user_data
  frame,        \* per thread: position, arguments, local pointer, dereferences made
  hstate,       \* host's view of each pointer as a handle: Uninitialized, Live, Destroyed
  responses,    \* response pointers returned to the host and not yet released
  reg_handle,   \* the Live handle whose call last stored g_callback (NULL: none such)
  fault,        \* an invalid free or a dereference of unallocated memory has happened
  invoked       \* callbacks the boundary has called

vars == <<allocated, mem, g_callback, g_user_data, frame, hstate, responses,
          reg_handle, fault, invoked>>

\* A thread that is not inside a call.  In a call: handle is runtime_handle
\* (or ptr), text is config_json / request_json, out is the local pointer
\* (runtime / out) and the return value, oom records that malloc returned
\* NULL, deref names the pointer variables the call has dereferenced, and
\* replaced is the value of g_callback the call overwrote.
IdleFrame ==
  [pc |-> "idle", handle |-> NULL, text |-> "", callback |-> NULL,
   user_data |-> NULL, out |-> NULL, oom |-> FALSE, deref |-> {},
   replaced |-> NULL]

Init ==
  /\ allocated = {}
  /\ mem = [a \in Addr |-> <<>>]
  /\ g_callback = NULL
  /\ g_user_data = NULL
  /\ frame = [t \in Threads |-> IdleFrame]
  /\ hstate = [a \in Addr |-> "Uninitialized"]
  /\ responses = {}
  /\ reg_handle = NULL
  /\ fault = FALSE
  /\ invoked = {}

(***************************************************************************)
(* The C library.                                                          *)
(***************************************************************************)

\* The index of the first NUL of s in lo..hi (0: none).
RECURSIVE first_nul(_, _, _)
first_nul(s, lo, hi) ==
  IF lo > hi THEN 0
  ELSE IF lo = hi THEN (IF s[lo] = 0 THEN lo ELSE 0)
  ELSE LET mid == (lo + hi) \div 2
           left == first_nul(s, lo, mid)
       IN IF left # 0 THEN left ELSE first_nul(s, mid + 1, hi)

\* strlen: the number of bytes before the first NUL.
strlen(s) == first_nul(s, 1, Len(s)) - 1

\* size_t len = strlen(payload).
len == strlen(payload)

\* memcpy(dst, src, n): the destination holds the first n bytes of src.
memcpy(src, n) == [i \in 1..n |-> src[i]]

\* malloc: any block not in use, or NULL when the allocation fails.
malloc == {NULL} \cup (Addr \ allocated)

\* A block as malloc returns it: n cells of indeterminate content.
fresh_block(n) == [i \in 1..n |-> -1]

\* The registration an event for handle h is delivered to: the stub keeps one
\* slot for all handles.
registration(h) == <<g_callback, g_user_data>>

(***************************************************************************)
(* void* ma_runtime_new(const char* config_json)                           *)
(***************************************************************************)
\* ma_runtime_new if it turned an empty config down: NULL without allocating.
ma_runtime_new_rejects_empty(t, config_json) ==
  /\ frame[t].pc = "idle"
  /\ \E runtime \in (IF config_json = "" THEN {NULL} ELSE malloc) :
       /\ allocated' = IF runtime # NULL THEN allocated \cup {runtime} ELSE allocated
       /\ mem' = IF runtime # NULL THEN [mem EXCEPT ![runtime] = <<1>>] ELSE mem
       /\ frame' = [frame EXCEPT ![t] =
             [IdleFrame EXCEPT !.pc = "new_ret", !.text = config_json,
                               !.out = runtime,
                               !.oom = (config_json # "" /\ runtime = NULL),
                               !.deref = IF runtime # NULL THEN {"runtime"} ELSE {}]]
  /\ UNCHANGED <<g_callback, g_user_data, hstate, responses, reg_handle, fault, invoked>>

\* Lines 18-23: the allocation and the initialisation of the new block.
ma_runtime_new(t, config_json) ==
  /\ frame[t].pc = "idle"
  /\ \E runtime \in malloc :
       /\ allocated' = IF runtime # NULL THEN allocated \cup {runtime} ELSE allocated
       /\ mem' = IF runtime # NULL THEN [mem EXCEPT ![runtime] = <<1>>] ELSE mem
       /\ frame' = [frame EXCEPT ![t] =
             [IdleFrame EXCEPT !.pc = "new_ret", !.text = config_json,
                               !.out = runtime, !.oom = (runtime = NULL),
                               !.deref = IF runtime # NULL THEN {"runtime"} ELSE {}]]
  /\ UNCHANGED <<g_callback, g_user_data, hstate, responses, reg_handle, fault, invoked>>

\* Line 24: the handle passes to the host.
ma_runtime_new_return(t) ==
  /\ frame[t].pc = "new_ret"
  /\ hstate' = IF frame[t].out # NULL
                 THEN [hstate EXCEPT ![frame[t].out] = "Live"] ELSE hstate
  /\ frame' = [frame EXCEPT ![t] = IdleFrame]
  /\ UNCHANGED <<allocated, mem, g_callback, g_user_data, responses, reg_handle,
                 fault, invoked>>

(***************************************************************************)
(* void ma_runtime_free(void* runtime_handle)                              *)
(* The host passes NULL or a Live handle (single release is the host's     *)
(* duty).                                                                  *)
(***************************************************************************)
\* ma_runtime_free if it reset the callback slot before its null check.
ma_runtime_free_clears_callback(t, runtime_handle) ==
  /\ frame[t].pc = "idle"
  /\ runtime_handle # NULL => hstate[runtime_handle] = "Live"
  /\ g_callback' = NULL
  /\ g_user_data' = NULL
  /\ IF runtime_handle # NULL
       THEN /\ allocated' = allocated \ {runtime_handle}
            /\ mem' = [mem EXCEPT ![runtime_handle] = <<>>]
            /\ fault' = (fault \/ runtime_handle \notin allocated)
            /\ hstate' = [hstate EXCEPT ![runtime_handle] = "Destroyed"]
       ELSE UNCHANGED <<allocated, mem, fault, hstate>>
  /\ frame' = [frame EXCEPT ![t] =
        [IdleFrame EXCEPT !.pc = "free_ret", !.handle = runtime_handle]]
  /\ UNCHANGED <<responses, reg_handle, invoked>>

ma_runtime_free(t, runtime_handle) ==
  /\ frame[t].pc = "idle"
  /\ runtime_handle # NULL => hstate[runtime_handle] = "Live"
  /\ IF runtime_handle # NULL
       THEN /\ allocated' = allocated \ {runtime_handle}
            /\ mem' = [mem EXCEPT ![runtime_handle] = <<>>]
            /\ fault' = (fault \/ runtime_handle \notin allocated)
            /\ hstate' = [hstate EXCEPT ![runtime_handle] = "Destroyed"]
       ELSE UNCHANGED <<allocated, mem, fault, hstate>>
  /\ frame' = [frame EXCEPT ![t] =
        [IdleFrame EXCEPT !.pc = "free_ret", !.handle = runtime_handle]]
  /\ UNCHANGED <<g_callback, g_user_data, responses, reg_handle, invoked>>

(***************************************************************************)
(* char* ma_invoke_json(void* runtime_handle, const char* request_json)    *)
(***************************************************************************)
\* ma_invoke_json if it answered a null runtime_handle with NULL.
ma_invoke_json_rejects_null(t, runtime_handle, request_json) ==
  /\ frame[t].pc = "idle"
  /\ \E out \in (IF runtime_handle = NULL THEN {NULL} ELSE malloc) :
       /\ allocated' = IF out # NULL THEN allocated \cup {out} ELSE allocated
       /\ mem' = IF out # NULL
                   THEN [mem EXCEPT ![out] = fresh_block(len + 1)] ELSE mem
       /\ frame' = [frame EXCEPT ![t] =
             [IdleFrame EXCEPT !.pc = IF out = NULL THEN "invoke_ret" ELSE "invoke_memcpy",
                               !.handle = runtime_handle, !.text = request_json,
                               !.out = out,
                               !.oom = (runtime_handle # NULL /\ out = NULL)]]
  /\ UNCHANGED <<g_callback, g_user_data, hstate, responses, reg_handle, fault, invoked>>

\* ma_invoke_json if it kept one static buffer: a call made while another is
\* in progress gets the buffer of that one.
ma_invoke_json_static_buffer(t, runtime_handle, request_json) ==
  /\ frame[t].pc = "idle"
  /\ LET busy == {frame[u].out : u \in {v \in Threads \ {t} :
                     frame[v].pc \in {"invoke_memcpy", "invoke_ret"} /\ frame[v].out # NULL}}
     IN \E out \in (IF busy # {} THEN busy ELSE malloc) :
       /\ allocated' = IF out # NULL THEN allocated \cup {out} ELSE allocated
       /\ mem' = IF out # NULL
                   THEN [mem EXCEPT ![out] = fresh_block(len + 1)] ELSE mem
       /\ frame' = [frame EXCEPT ![t] =
             [IdleFrame EXCEPT !.pc = IF out = NULL THEN "invoke_ret" ELSE "invoke_memcpy",
                               !.handle = runtime_handle, !.text = request_json,
                               !.out = out, !.oom = (out = NULL)]]
  /\ UNCHANGED <<g_callback, g_user_data, hstate, responses, reg_handle, fault, invoked>>

\* ma_invoke_json if it read runtime_handle->placeholder before answering.
ma_invoke_json_reads_handle(t, runtime_handle, request_json) ==
  /\ frame[t].pc = "idle"
  /\ fault' = (fault \/ runtime_handle \notin allocated)
  /\ \E out \in malloc :
       /\ allocated' = IF out # NULL THEN allocated \cup {out} ELSE allocated
       /\ mem' = IF out # NULL
                   THEN [mem EXCEPT ![out] = fresh_block(len + 1)] ELSE mem
       /\ frame' = [frame EXCEPT ![t] =
             [IdleFrame EXCEPT !.pc = IF out = NULL THEN "invoke_ret" ELSE "invoke_memcpy",
                               !.handle = runtime_handle, !.text = request_json,
                               !.out = out, !.oom = (out = NULL),
                               !.deref = {"runtime_handle"}]]
  /\ UNCHANGED <<g_callback, g_user_data, hstate, responses, reg_handle, invoked>>

\* Lines 33-42: the length of the literal, the allocation and its null check.
ma_invoke_json(t, runtime_handle, request_json) ==
  /\ frame[t].pc = "idle"
  /\ \E out \in malloc :
       /\ allocated' = IF out # NULL THEN allocated \cup {out} ELSE allocated
       /\ mem' = IF out # NULL
                   THEN [mem EXCEPT ![out] = fresh_block(len + 1)] ELSE mem
       /\ frame' = [frame EXCEPT ![t] =
             [IdleFrame EXCEPT !.pc = IF out = NULL THEN "invoke_ret" ELSE "invoke_memcpy",
                               !.handle = runtime_handle, !.text = request_json,
                               !.out = out, !.oom = (out = NULL)]]
  /\ UNCHANGED <<g_callback, g_user_data, hstate, responses, reg_handle, fault, invoked>>

\* Line 43: memcpy(out, payload, len + 1).
ma_invoke_json_memcpy(t) ==
  /\ frame[t].pc = "invoke_memcpy"
  /\ mem' = [mem EXCEPT ![frame[t].out] = memcpy(payload, len + 1)]
  /\ frame' = [frame EXCEPT ![t].pc = "invoke_ret", ![t].deref = frame[t].deref \cup {"out"}]
  /\ fault' = (fault \/ frame[t].out \notin allocated)
  /\ UNCHANGED <<allocated, g_callback, g_user_data, hstate, responses, reg_handle, invoked>>

\* Line 44 (and 41): the response passes to the host.
ma_invoke_json_return(t) ==
  /\ frame[t].pc = "invoke_ret"
  /\ responses' = IF frame[t].out # NULL THEN responses \cup {frame[t].out} ELSE responses
  /\ frame' = [frame EXCEPT ![t] = IdleFrame]
  /\ UNCHANGED <<allocated, mem, g_callback, g_user_data, hstate, reg_handle,
                 fault, invoked>>

(***************************************************************************)
(* void ma_set_event_callback(void* runtime_handle, ma_event_callback      *)
(*                            callback, void* user_data)                   *)
(* Two plain stores to the two statics, with no lock around them.          *)
(***************************************************************************)
\* ma_set_event_callback if it stored only a non-null callback.
ma_set_event_callback_skips_null(t, runtime_handle, callback, user_data) ==
  /\ frame[t].pc = "idle"
  /\ g_callback' = IF callback # NULL THEN callback ELSE g_callback
  /\ reg_handle' = IF runtime_handle # NULL /\ hstate[runtime_handle] = "Live"
                     THEN runtime_handle ELSE NULL
  /\ frame' = [frame EXCEPT ![t] =
        [IdleFrame EXCEPT !.pc = "set_user_data", !.handle = runtime_handle,
                          !.callback = callback, !.user_data = user_data,
                          !.replaced = g_callback]]
  /\ UNCHANGED <<allocated, mem, g_user_data, hstate, responses, fault, invoked>>

\* Line 49: g_callback = callback.
ma_set_event_callback(t, runtime_handle, callback, user_data) ==
  /\ frame[t].pc = "idle"
  /\ g_callback' = callback
  /\ reg_handle' = IF runtime_handle # NULL /\ hstate[runtime_handle] = "Live"
                     THEN runtime_handle ELSE NULL
  /\ frame' = [frame EXCEPT ![t] =
        [IdleFrame EXCEPT !.pc = "set_user_data", !.handle = runtime_handle,
                          !.callback = callback, !.user_data = user_data,
                          !.replaced = g_callback]]
  /\ UNCHANGED <<allocated, mem, g_user_data, hstate, responses, fault, invoked>>

\* Line 50: g_user_data = user_data.
ma_set_event_callback_user_data(t) ==
  /\ frame[t].pc = "set_user_data"
  /\ g_user_data' = frame[t].user_data
  /\ frame' = [frame EXCEPT ![t].pc = "set_ret"]
  /\ UNCHANGED <<allocated, mem, g_callback, hstate, responses, reg_handle, fault, invoked>>

(***************************************************************************)
(* void ma_free_c_string(char* ptr)                                        *)
(* The host passes NULL or a response it holds and has not released.       *)
(***************************************************************************)
\* ma_free_c_string if its test were inverted: free only of a null ptr.
ma_free_c_string_inverted(t, ptr) ==
  /\ frame[t].pc = "idle"
  /\ ptr # NULL => ptr \in responses
  /\ responses' = responses \ {ptr}
  /\ frame' = [frame EXCEPT ![t] =
        [IdleFrame EXCEPT !.pc = "free_c_string_ret", !.handle = ptr]]
  /\ UNCHANGED <<allocated, mem, fault, g_callback, g_user_data, hstate, reg_handle, invoked>>

ma_free_c_string(t, ptr) ==
  /\ frame[t].pc = "idle"
  /\ ptr # NULL => ptr \in responses
  /\ IF ptr # NULL
       THEN /\ allocated' = allocated \ {ptr}
            /\ mem' = [mem EXCEPT ![ptr] = <<>>]
            /\ fault' = (fault \/ ptr \notin allocated)
            /\ responses' = responses \ {ptr}
       ELSE UNCHANGED <<allocated, mem, fault, responses>>
  /\ frame' = [frame EXCEPT ![t] =
        [IdleFrame EXCEPT !.pc = "free_c_string_ret", !.handle = ptr]]
  /\ UNCHANGED <<g_callback, g_user_data, hstate, reg_handle, invoked>>

\* The return of a function of type void.
return_void(t) ==
  /\ frame[t].pc \in {"free_ret", "set_ret", "free_c_string_ret"}
  /\ frame' = [frame EXCEPT ![t] = IdleFrame]
  /\ UNCHANGED <<allocated, mem, g_callback, g_user_data, hstate, responses,
                 reg_handle, fault, invoked>>

(***************************************************************************)
(* The specifications.                                                     *)
(***************************************************************************)
\* One host thread calls every function.
Next ==
  \E t \in {1} :
    \/ \E c \in Configs : ma_runtime_new(t, c)
    \/ ma_runtime_new_return(t)
    \/ \E h \in Pointers : ma_runtime_free(t, h)
    \/ \E h \in Pointers, r \in Requests : ma_invoke_json(t, h, r)
    \/ ma_invoke_json_memcpy(t)
    \/ ma_invoke_json_return(t)
    \/ \E h \in Pointers, reg \in Registrations :
         ma_set_event_callback(t, h, reg[1], reg[2])
    \/ ma_set_event_callback_user_data(t)
    \/ \E p \in Pointers : ma_free_c_string(t, p)
    \/ return_void(t)

Spec == Init /\ [][Next]_vars

\* Several host threads create runtimes, invoke on a Live or a null handle
\* with any request text, and release the responses.
NextInvoke ==
  \E t \in Threads :
    \/ ma_runtime_new(t, "{}")
    \/ ma_runtime_new_return(t)
    \/ \E h \in {a \in Addr : hstate[a] = "Live"} \cup {NULL}, r \in Requests :
         ma_invoke_json(t, h, r)
    \/ ma_invoke_json_memcpy(t)
    \/ ma_invoke_json_return(t)
    \/ \E p \in Pointers : ma_free_c_string(t, p)
    \/ return_void(t)

SpecInvoke == Init /\ [][NextInvoke]_vars

\* Several host threads register callbacks.
NextCallback ==
  \E t \in Threads :
    \/ \E h \in Pointers, reg \in Registrations :
         ma_set_event_callback(t, h, reg[1], reg[2])
    \/ ma_set_event_callback_user_data(t)
    \/ return_void(t)

SpecCallback == Init /\ [][NextCallback]_vars

(***************************************************************************)
(* The host's reading of a response: the text of a NUL-terminated buffer,  *)
(* parsed as JSON (objects, strings and the literals true, false, null:    *)
(* what the minimum envelope {ok, error: {code, message}} is made of).     *)
(***************************************************************************)
IsTerminated(block) == first_nul(block, 1, Len(block)) # 0

\* The bytes before the first NUL.
c_text(block) == SubSeq(block, 1, strlen(block))

JsonError == [kind |-> "error"]

IsSpace(c) == c \in {32, 9, 10, 13}

RECURSIVE SkipSpace(_, _)
SkipSpace(s, i) == IF i <= Len(s) /\ IsSpace(s[i]) THEN SkipSpace(s, i + 1) ELSE i

\* Whether the byte at e, in a string whose content starts at i, follows an
\* even number of backslashes: it is not escaped.
Unescaped(s, i, e) ==
  LET run == CHOOSE k \in 0..(e - i) :
               /\ \A m \in 1..k : s[e - m] = 92
               /\ (k = e - i \/ s[e - k - 1] # 92)
  IN run % 2 = 0

\* The index of the quote that closes the string whose content starts at i
\* (0: none): the first quote from i on that is not escaped.
RECURSIVE FirstQuote(_, _, _, _)
FirstQuote(s, i, lo, hi) ==
  IF lo > hi THEN 0
  ELSE IF lo = hi THEN (IF s[lo] = 34 /\ Unescaped(s, i, lo) THEN lo ELSE 0)
  ELSE LET mid == (lo + hi) \div 2
           left == FirstQuote(s, i, lo, mid)
       IN IF left # 0 THEN left ELSE FirstQuote(s, i, mid + 1, hi)

StringEnd(s, i) == FirstQuote(s, i, i, Len(s))

HasAt(s, i, word) ==
  /\ i + Len(word) - 1 <= Len(s)
  /\ SubSeq(s, i, i + Len(word) - 1) = word

\* ParseValue(s, i): [val, next], the value that starts at or after i and the
\* index after it; val is JsonError when there is none.
RECURSIVE ParseValue(_, _)
RECURSIVE ParseMembers(_, _, _)
ParseValue(s, i) ==
  LET j == SkipSpace(s, i) IN
  IF j > Len(s) THEN [val |-> JsonError, next |-> j]
  ELSE IF s[j] = 34 THEN
    LET e == StringEnd(s, j + 1) IN
    IF e = 0 THEN [val |-> JsonError, next |-> j]
    ELSE [val |-> [kind |-> "string", text |-> SubSeq(s, j + 1, e - 1)], next |-> e + 1]
  ELSE IF s[j] = 123 THEN
    LET k == SkipSpace(s, j + 1) IN
    IF k <= Len(s) /\ s[k] = 125
      THEN [val |-> [kind |-> "object", members |-> <<>>], next |-> k + 1]
      ELSE ParseMembers(s, k, <<>>)
  ELSE IF HasAt(s, j, <<116, 114, 117, 101>>)
    THEN [val |-> [kind |-> "bool", bool |-> TRUE], next |-> j + 4]
  ELSE IF HasAt(s, j, <<102, 97, 108, 115, 101>>)
    THEN [val |-> [kind |-> "bool", bool |-> FALSE], next |-> j + 5]
  ELSE IF HasAt(s, j, <<110, 117, 108, 108>>)
    THEN [val |-> [kind |-> "null"], next |-> j + 4]
  ELSE [val |-> JsonError, next |-> j]

\* The members of an object from index i on ("key": value, ... }), after the
\* members in acc.
ParseMembers(s, i, acc) ==
  LET key == ParseValue(s, i)
      c == SkipSpace(s, key.next)
  IN
  IF key.val.kind # "string" \/ c > Len(s) \/ s[c] # 58
    THEN [val |-> JsonError, next |-> i]
  ELSE
    LET v == ParseValue(s, c + 1)
        d == SkipSpace(s, v.next)
        more == Append(acc, [key |-> key.val.text, value |-> v.val])
    IN
    IF v.val.kind = "error" \/ d > Len(s) THEN [val |-> JsonError, next |-> i]
    ELSE IF s[d] = 125 THEN [val |-> [kind |-> "object", members |-> more], next |-> d + 1]
    ELSE IF s[d] = 44 THEN ParseMembers(s, d + 1, more)
    ELSE [val |-> JsonError, next |-> i]

\* The whole text as one JSON value.
ParseJson(s) ==
  LET r == ParseValue(s, 1) IN
  IF r.val.kind # "error" /\ SkipSpace(s, r.next) = Len(s) + 1 THEN r.val ELSE JsonError

HasMember(obj, key) ==
  obj.kind = "object" /\ \E i \in 1..Len(obj.members) : obj.members[i].key = key

Member(obj, key) ==
  obj.members[CHOOSE i \in 1..Len(obj.members) : obj.members[i].key = key].value

KeyOk == <<111, 107>>
KeyError == <<101, 114, 114, 111, 114>>
KeyCode == <<99, 111, 100, 101>>
KeyMessage == <<109, 101, 115, 115, 97, 103, 101>>
CodeFfiStub == <<102, 102, 105, 95, 115, 116, 117, 98>>

NonEmptyString(v) == v.kind = "string" /\ Len(v.text) > 0

\* {"ok": false, "error": {"code": <non-empty>, "message": <non-empty>}}
IsFailureEnvelope(v) ==
  /\ HasMember(v, KeyOk)
  /\ Member(v, KeyOk) = [kind |-> "bool", bool |-> FALSE]
  /\ HasMember(v, KeyError)
  /\ HasMember(Member(v, KeyError), KeyCode)
  /\ NonEmptyString(Member(Member(v, KeyError), KeyCode))
  /\ HasMember(Member(v, KeyError), KeyMessage)
  /\ NonEmptyString(Member(Member(v, KeyError), KeyMessage))

\* The text of the buffer parses as the stub's failure envelope, code "ffi_stub".
ParsesAsStubFailure(block) ==
  /\ IsTerminated(block)
  /\ LET v == ParseJson(c_text(block)) IN
       /\ IsFailureEnvelope(v)
       /\ Member(Member(v, KeyError), KeyCode).text = CodeFfiStub

\* The same of the bytes of the literal, parsed once.
LiteralParses == ParsesAsStubFailure(payload)

IsStubFailure(block) ==
  IF block = payload THEN LiteralParses ELSE ParsesAsStubFailure(block)

(***************************************************************************)
(* Vocabulary of the properties.                                           *)
(***************************************************************************)
LiveHandles == {a \in Addr : hstate[a] = "Live"}

\* Blocks a call in progress has allocated and not yet handed to the host.
InFlight(t) ==
  IF frame[t].pc \in {"new_ret", "invoke_memcpy", "invoke_ret"} /\ frame[t].out # NULL
    THEN {frame[t].out} ELSE {}

InFlightBlocks == UNION {InFlight(t) : t \in Threads}

InInvoke(t) == frame[t].pc \in {"invoke_memcpy", "invoke_ret"}

InSetCallback(t) == frame[t].pc \in {"set_user_data", "set_ret"}

\* Thread t takes a step of ma_invoke_json / of ma_set_event_callback.
InvokeStep(t) ==
  \/ frame[t].pc = "idle" /\ InInvoke(t)'
  \/ InInvoke(t) /\ frame'[t] # frame[t]

SetCallbackStep(t) ==
  \/ frame[t].pc = "idle" /\ InSetCallback(t)'
  \/ frame[t].pc = "set_user_data" /\ frame'[t].pc = "set_ret"

(***************************************************************************)
(* C1.  Whatever the handle (Live, null, Destroyed) and the request text,  *)
(* ma_invoke_json returns NULL exactly when its allocation failed, and     *)
(* otherwise a NUL-terminated buffer that parses as the failure envelope:  *)
(* ok false, error.code "ffi_stub", error.message non-empty.               *)
(***************************************************************************)
InvokeReturnsFailureEnvelope ==
  \A t \in Threads :
    frame[t].pc = "invoke_ret" =>
      /\ (frame[t].out = NULL) <=> frame[t].oom
      /\ frame[t].out # NULL =>
           /\ frame[t].out \in allocated
           /\ IsStubFailure(mem[frame[t].out])
      /\ ~fault

\* A call on a Destroyed handle with a malformed request has returned a buffer.
InvokeOnDestroyedReturned ==
  \E t \in Threads :
    /\ frame[t].pc = "invoke_ret"
    /\ frame[t].out # NULL
    /\ frame[t].handle # NULL
    /\ hstate[frame[t].handle] = "Destroyed"
    /\ frame[t].text = "{bad"

(***************************************************************************)
(* C2.  ma_runtime_new returns NULL exactly when its allocation failed,    *)
(* whatever the config text, and otherwise a fresh block, initialised,     *)
(* that is Live once returned; ma_runtime_free of a Live handle releases   *)
(* exactly that block without fault and leaves every other handle, block   *)
(* and response as it was.                                                 *)
(***************************************************************************)
NewReturnsFreshHandle ==
  \A t \in Threads :
    frame[t].pc = "new_ret" =>
      /\ (frame[t].out = NULL) <=> frame[t].oom
      /\ frame[t].out # NULL =>
           /\ frame[t].out \in allocated
           /\ mem[frame[t].out] = <<1>>
           /\ frame[t].out \notin LiveHandles \cup responses

LiveIsAllocated ==
  \A a \in LiveHandles : a \in allocated /\ mem[a] = <<1>>

FreeDestroysExactlyOne ==
  \A t \in Threads :
    (frame[t].pc = "idle" /\ frame'[t].pc = "free_ret" /\ frame'[t].handle # NULL) =>
      LET h == frame'[t].handle IN
      /\ hstate'[h] = "Destroyed"
      /\ allocated' = allocated \ {h}
      /\ \A b \in Addr \ {h} : hstate'[b] = hstate[b] /\ mem'[b] = mem[b]
      /\ LiveHandles' = LiveHandles \ {h}
      /\ ~fault'

NewReturnHandsOverLive ==
  \A t \in Threads :
    (frame[t].pc = "new_ret" /\ frame'[t].pc = "idle" /\ frame[t].out # NULL) =>
      /\ LiveHandles' = LiveHandles \cup {frame[t].out}
      /\ frame[t].out \in allocated'

ConstructAndDestroy ==
  /\ [](NewReturnsFreshHandle /\ LiveIsAllocated)
  /\ [][FreeDestroysExactlyOne /\ NewReturnHandsOverLive]_vars

\* A handle has been destroyed while another one is Live.
DestroyedOneOfTwo ==
  \E t \in Threads :
    /\ frame[t].pc = "free_ret"
    /\ frame[t].handle # NULL
    /\ hstate[frame[t].handle] = "Destroyed"
    /\ LiveHandles # {}

(***************************************************************************)
(* C3.  A step of ma_set_event_callback(A, ...) on a Live handle A leaves  *)
(* the registration of every other Live handle B unchanged.                *)
(***************************************************************************)
PerHandleRegistration ==
  [][\A t \in Threads : \A B \in LiveHandles :
       (/\ SetCallbackStep(t)
        /\ frame'[t].handle \in LiveHandles
        /\ frame'[t].handle # B)
       => registration(B)' = registration(B)]_vars

(***************************************************************************)
(* C4.  In every state the stored (callback, user_data) pair is a pair     *)
(* that one call passed, or the initial null pair: never the callback of   *)
(* one registration with the user_data of another.                         *)
(***************************************************************************)
RegistrationNeverTorn == <<g_callback, g_user_data>> \in Registrations

(***************************************************************************)
(* C5.  When ma_set_event_callback(h, NULL, ud) has completed, the stored  *)
(* callback is null; a null stored callback stays null until a call        *)
(* stores a non-null one; and the boundary calls no callback.              *)
(***************************************************************************)
NullRegistrationStored ==
  \A t \in Threads :
    (frame[t].pc = "set_ret" /\ frame[t].callback = NULL) => g_callback = NULL

NullUntilRegistered ==
  (g_callback = NULL /\ g_callback' # NULL) =>
    \E t \in Threads :
      /\ frame[t].pc = "idle"
      /\ frame'[t].pc = "set_user_data"
      /\ frame'[t].callback # NULL
      /\ g_callback' = frame'[t].callback

NullCallbackDisablesDelivery ==
  /\ [](NullRegistrationStored /\ invoked = {})
  /\ [][NullUntilRegistered /\ invoked' = invoked]_vars

\* A null registration has completed and replaced a non-null one.
NullReplacedCallback ==
  \E t \in Threads :
    /\ frame[t].pc = "set_ret"
    /\ frame[t].callback = NULL
    /\ frame[t].replaced # NULL

(***************************************************************************)
(* C6.  Once a handle is Destroyed, the registration made through it is    *)
(* no longer the stored one.                                               *)
(***************************************************************************)
DestroyDropsRegistration ==
  \A h \in Addr :
    (hstate[h] = "Destroyed" /\ reg_handle = h) => g_callback = NULL

(***************************************************************************)
(* C7.  The allocated blocks are exactly the Live handles, the unreleased  *)
(* responses and the blocks of the calls in progress, all distinct; so a   *)
(* response is released alone, before or after its handle, nothing is      *)
(* freed twice, and when every handle is destroyed and every response      *)
(* released nothing remains allocated.                                     *)
(***************************************************************************)
AllocationsAreOwned ==
  /\ ~fault
  /\ allocated = LiveHandles \cup responses \cup InFlightBlocks
  /\ LiveHandles \cap responses = {}
  /\ InFlightBlocks \cap (LiveHandles \cup responses) = {}

ReleaseFreesExactlyOne ==
  \A t \in Threads :
    (frame[t].pc = "idle" /\ frame'[t].pc = "free_c_string_ret" /\ frame'[t].handle # NULL) =>
      LET p == frame'[t].handle IN
      /\ allocated' = allocated \ {p}
      /\ responses' = responses \ {p}
      /\ \A b \in Addr \ {p} : mem'[b] = mem[b]
      /\ hstate' = hstate
      /\ ~fault'

ResponsesOwnedByCaller ==
  /\ []AllocationsAreOwned
  /\ [][ReleaseFreesExactlyOne]_vars

\* The last response has been released after the handles were destroyed.
AllReleased ==
  \E t \in Threads :
    /\ frame[t].pc = "free_c_string_ret"
    /\ frame[t].handle # NULL
    /\ allocated = {}
    /\ \E h \in Addr : hstate[h] = "Destroyed"

(***************************************************************************)
(* C8.  ma_runtime_free(NULL) and ma_free_c_string(NULL) change neither    *)
(* the allocator, the memory, the handles, the responses nor the stored    *)
(* registration, and do not fault.                                         *)
(***************************************************************************)
NullFreeIsNoOp ==
  [][\A t \in Threads :
       (/\ frame[t].pc = "idle"
        /\ frame'[t].pc \in {"free_ret", "free_c_string_ret"}
        /\ frame'[t].handle = NULL)
       => /\ UNCHANGED <<allocated, mem, hstate, responses, g_callback, g_user_data,
                         reg_handle, invoked>>
          /\ ~fault']_vars

\* ma_runtime_free(NULL) has run with a handle, a response and a callback in place.
FreedNull ==
  \E t \in Threads :
    /\ frame[t].pc = "free_ret"
    /\ frame[t].handle = NULL
    /\ LiveHandles # {}
    /\ responses # {}
    /\ g_callback # NULL

(***************************************************************************)
(* C9.  Concurrent calls of ma_invoke_json, on distinct Live handles and   *)
(* with distinct requests, do not interfere.  In every state the buffers   *)
(* of two calls in progress differ, and differ from every handle and       *)
(* response; the only memory a call has read or written through a pointer  *)
(* is its own buffer, never the handle or the buffer of another call nor   *)
(* any Live handle; and the buffer a call returns holds the response the   *)
(* same request gets from a call made alone.  In every step, a call        *)
(* writes only its own buffer and frame, and no other thread writes the    *)
(* buffer of a call in progress.                                           *)
(***************************************************************************)
\* The response to request_json of a call made alone (lines 36-43): the
\* literal with its NUL, the request being unused.
response_to(request_json) == memcpy(payload, strlen(payload) + 1)

\* The addresses a call has read or written through its pointer variables.
Accessed(t) ==
  (IF {"out", "runtime"} \cap frame[t].deref # {} THEN {frame[t].out} ELSE {})
    \cup (IF "runtime_handle" \in frame[t].deref THEN {frame[t].handle} ELSE {})

\* The blocks a call in progress uses: its handle and its buffer.
UsedBy(t) == {frame[t].handle, frame[t].out} \ {NULL}

InvokeBuffersDistinct ==
  /\ \A t, u \in Threads :
       (t # u /\ InInvoke(t) /\ InInvoke(u) /\ frame[t].out # NULL)
         => frame[t].out # frame[u].out
  /\ \A t \in Threads :
       (InInvoke(t) /\ frame[t].out # NULL) =>
         /\ frame[t].out \in allocated
         /\ frame[t].out \notin LiveHandles \cup responses
         /\ \A u \in Threads \ {t} : frame[t].out \notin InFlight(u)

InvokeAccessesOwnBuffer ==
  \A t \in Threads :
    InInvoke(t) =>
      /\ Accessed(t) \subseteq {frame[t].out} \ {NULL}
      /\ Accessed(t) \cap LiveHandles = {}
      /\ \A u \in Threads \ {t} :
           (InInvoke(u) \/ frame[u].pc = "new_ret") => Accessed(t) \cap UsedBy(u) = {}

InvokeAnswersOwnRequest ==
  \A t \in Threads :
    (frame[t].pc = "invoke_ret" /\ frame[t].out # NULL) =>
      /\ mem[frame[t].out] = response_to(frame[t].text)
      /\ IsStubFailure(mem[frame[t].out])

InvokeWritesOwnBuffer ==
  \A t \in Threads :
    /\ InvokeStep(t) =>
         /\ \A u \in Threads \ {t} : frame'[u] = frame[u]
         /\ \A a \in Addr \ {frame[t].out, frame'[t].out} : mem'[a] = mem[a]
         /\ UNCHANGED <<g_callback, g_user_data, hstate>>
         /\ responses' \ responses \subseteq {frame[t].out}
         /\ responses \subseteq responses'
    /\ (InInvoke(t) /\ frame'[t] = frame[t] /\ frame[t].out # NULL) =>
         mem'[frame[t].out] = mem[frame[t].out]

InvokesDoNotInterfere ==
  /\ [](InvokeBuffersDistinct /\ InvokeAccessesOwnBuffer /\ InvokeAnswersOwnRequest)
  /\ [][InvokeWritesOwnBuffer]_vars

\* Two calls on two distinct Live handles, with different requests, are in
\* progress, each with a buffer: one already filled and one not yet.
TwoInvokesInProgress ==
  \E t, u \in Threads :
    /\ frame[t].pc = "invoke_ret" /\ frame[u].pc = "invoke_memcpy"
    /\ frame[t].out # NULL /\ frame[u].out # NULL
    /\ frame[t].handle \in LiveHandles /\ frame[u].handle \in LiveHandles
    /\ frame[t].handle # frame[u].handle
    /\ frame[t].text # frame[u].text

(***************************************************************************)
(* C10.  With each handle freed at most once, ma_invoke_json and           *)
(* ma_set_event_callback dereference no handle, whatever its state, and    *)
(* no unallocated memory; their steps leave the block of the handle as it  *)
(* was (a Live handle's always; a stale pointer's unless malloc has just   *)
(* handed that address out as the call's own buffer), and ma_invoke_json   *)
(* leaves the handles' states and the stored registration unchanged.       *)
(***************************************************************************)
HandleNotDereferenced ==
  /\ ~fault
  /\ \A t \in Threads :
       (InInvoke(t) \/ InSetCallback(t)) => "runtime_handle" \notin frame[t].deref

HandleBlockUntouched ==
  \A t \in Threads :
    LET h == IF frame[t].pc = "idle" THEN frame'[t].handle ELSE frame[t].handle IN
    /\ (InvokeStep(t) \/ SetCallbackStep(t)) =>
         /\ (h \in LiveHandles \/ (h \in allocated /\ h \notin {frame[t].out, frame'[t].out}))
              => (h \in allocated' /\ mem'[h] = mem[h])
         /\ hstate' = hstate
    /\ InvokeStep(t) => UNCHANGED <<g_callback, g_user_data>>

NoUseOfReleasedHandle ==
  /\ []HandleNotDereferenced
  /\ [][HandleBlockUntouched]_vars

\* A call on a Destroyed handle has returned a buffer at the handle's address.
InvokeReusedHandleAddress ==
  \E t \in Threads :
    /\ frame[t].pc = "invoke_ret"
    /\ frame[t].handle # NULL
    /\ hstate[frame[t].handle] = "Destroyed"
    /\ frame[t].out = frame[t].handle

====
